---- MODULE Spec2Model ----
(***************************************************************************)
(* Model of core/src/scans.rs: registration of UTXO-set scans with the     *)
(* node, retrieval of the boxes a scan matches, the six catalog            *)
(* procedures, and the persistence of scan ids to scanIDs.json.            *)
(*                                                                         *)
(* The module has no in-memory state of its own: the only state that       *)
(* outlives a call is the document scanIDs.json.  Every action is one      *)
(* call of a public function; the answers of the collaborators             *)
(* (crate::node_interface, std::fs) are inputs of the call.  lastCall      *)
(* records the call: its arguments, the collaborators' answers, the        *)
(* requests made to the collaborators in order, and the value returned.    *)
(***************************************************************************)
EXTENDS Integers, Sequences, FiniteSets

VARIABLES document, lastCall

vars == <<document, lastCall>>

(* ---------------------------- bounds ----------------------------------- *)

\* longest list of scans handed to save_scan_ids_locally
MaxScans == 2
\* largest collection of boxes the node answers with
MaxBoxes == 2

(* ---------------------------- value sets -------------------------------- *)

\* the reserved identifier save_scan_ids_locally compares against
NullID == "null"
\* identifiers of working scans
ScanIDs == {"1", "2"}
\* everything register_scan may answer with
NodeIDs == ScanIDs \cup {NullID}
\* scan names a caller passes (name: &'static str)
Names == {"A", "B"}
Boxes == {"b1", "b2"}
Tokens == {"nft1", "nft2"}
Addresses == {"addr1", "addr2"}

BoxSeqs == UNION {[1..n -> Boxes] : n \in 0..MaxBoxes}

(* ---------------------------- results ----------------------------------- *)

\* std::result::Result<T, ScanError>: Ok(v) or Err(e), e one of ScanError's
\* variants.  A panic unwinds instead of returning; "Panic" stands for it.
Ok(v) == [kind |-> "Ok", value |-> v]
Err(e) == [kind |-> "Err", value |-> e]
Panic(msg) == [kind |-> "Panic", value |-> msg]
ScanError == {"NodeError", "NoBoxesFound", "FailedToRegister", "IoError"}

\* Err(NodeError) as a collaborator of node_interface returns it
NodeFail == [kind |-> "NodeFail", value |-> "node"]
\* Err(std::io::Error) as std::fs::write returns it
IoFail == [kind |-> "IoFail", value |-> "io"]

IsOk(r) == r.kind = "Ok"
IsErr(r, e) == r.kind = "Err" /\ r.value = e

\* the conversions `?` applies: #[derive(From)] on ScanError wraps a
\* NodeError in ScanError::NodeError and an io::Error in ScanError::IoError
From(r) ==
  IF r.kind = "NodeFail" THEN Err("NodeError")
  ELSE IF r.kind = "IoFail" THEN Err("IoError")
  ELSE r

\* one request to a collaborator
Call(fn, arg) == [fn |-> fn, arg |-> arg]
CallsTo(calls, f) == Len(SelectSeq(calls, LAMBDA c : c.fn = f))

(* ---------------------------- Scan -------------------------------------- *)

Scan_new(name, scan_id) == [name |-> name, id |-> scan_id]


(* ---------------------------- node_interface ---------------------------- *)
(* The collaborators of crate::node_interface.  Each takes the answer the  *)
(* node gives to this request: NodeFail or Ok(value).                      *)

\* register_scan(&scan_json) -> Result<ScanID, NodeError>
register_scan(scan_json, answer) == answer
\* get_scan_boxes(&scan_id) -> Result<Vec<ErgoBox>, NodeError>
get_scan_boxes(scan_id, answer) == answer
\* the base16 text of one box
SerializedBox(b) == "hex:" \o b
\* serialize_box(&box) -> Result<String, NodeError>
serialize_box(b, works) == IF works THEN Ok(SerializedBox(b)) ELSE NodeFail
\* serialize_boxes(&boxes) -> Result<Vec<String>, NodeError>
serialize_boxes(bs, works) ==
  IF works THEN Ok([i \in DOMAIN bs |-> SerializedBox(bs[i])]) ELSE NodeFail
\* the base16 ErgoTree bytes of a P2S address
TreeBytes(address) == "tree:" \o address
\* the raw EC point bytes and type identifier of an address
RawBytes(address) == "raw:" \o address
\* address_to_bytes(&address) -> Result<String, NodeError>
address_to_bytes(address, works) == IF works THEN Ok(TreeBytes(address)) ELSE NodeFail
\* address_to_raw_for_register(&address) -> Result<String, NodeError>
address_to_raw_for_register(address, works) ==
  IF works THEN Ok(RawBytes(address)) ELSE NodeFail

\* the answers the node can give to register_scan and to get_scan_boxes
RegisterAnswers == {NodeFail} \cup {Ok(id) : id \in NodeIDs}
BoxesAnswers == {NodeFail} \cup {Ok(bs) : bs \in BoxSeqs}

(* ---------------------------- impl Scan --------------------------------- *)
(* Each function returns [res, calls]: the Result it returns and the       *)
(* requests it made to the collaborators, in order.                        *)

register(name, tracking_rule, answer) ==
  LET scan_json == [scanName |-> name, trackingRule |-> tracking_rule]
      scan_id == From(register_scan(scan_json, answer))
  IN IF ~IsOk(scan_id)
       THEN [res |-> scan_id, calls |-> <<Call("register_scan", scan_json)>>]
       ELSE [res |-> Ok(Scan_new(name, scan_id.value)),
             calls |-> <<Call("register_scan", scan_json)>>]

\* faulty variant: an empty match set is reported as NoBoxesFound
get_boxes_strict(self, answer) ==
  LET boxes == From(get_scan_boxes(self.id, answer))
  IN [res |-> IF IsOk(boxes) /\ boxes.value = <<>> THEN Err("NoBoxesFound") ELSE boxes,
      calls |-> <<Call("get_scan_boxes", self.id)>>]

\* faulty variant: the boxes of the previous successful get_boxes call on the same scan
\* are returned without asking the node
get_boxes_cached(self, answer) ==
  IF lastCall.op = "get_boxes" /\ lastCall.args.self = self /\ IsOk(lastCall.res)
    THEN [res |-> lastCall.res, calls |-> <<>>]
    ELSE [res |-> From(get_scan_boxes(self.id, answer)),
          calls |-> <<Call("get_scan_boxes", self.id)>>]

get_boxes(self, answer) ==
  LET boxes == From(get_scan_boxes(self.id, answer))
  IN [res |-> boxes, calls |-> <<Call("get_scan_boxes", self.id)>>]

\* faulty variant: the last box of the collection is taken
get_box_last(self, answer) ==
  LET boxes == get_boxes(self, answer)
  IN IF ~IsOk(boxes.res) THEN boxes
     ELSE IF boxes.res.value = <<>>
       THEN [res |-> Err("NoBoxesFound"), calls |-> boxes.calls]
       ELSE [res |-> Ok(boxes.res.value[Len(boxes.res.value)]), calls |-> boxes.calls]

get_box(self, answer) ==
  LET boxes == get_boxes(self, answer)
  IN IF ~IsOk(boxes.res) THEN boxes
     ELSE IF boxes.res.value = <<>>
       THEN [res |-> Err("NoBoxesFound"), calls |-> boxes.calls]
       ELSE [res |-> Ok(Head(boxes.res.value)), calls |-> boxes.calls]

get_serialized_boxes(self, answer, works) ==
  LET boxes == get_boxes(self, answer)
  IN IF ~IsOk(boxes.res) THEN boxes
     ELSE [res |-> From(serialize_boxes(boxes.res.value, works)),
           calls |-> boxes.calls \o <<Call("serialize_boxes", boxes.res.value)>>]

\* faulty variant: the serializer's failure is reported as NoBoxesFound
get_serialized_box_nobox(self, answer, works) ==
  LET b == get_box(self, answer)
      ser == From(serialize_box(b.res.value, works))
  IN IF ~IsOk(b.res) THEN b
     ELSE [res |-> IF IsOk(ser) THEN ser ELSE Err("NoBoxesFound"),
           calls |-> b.calls \o <<Call("serialize_box", b.res.value)>>]

get_serialized_box(self, answer, works) ==
  LET b == get_box(self, answer)
  IN IF ~IsOk(b.res) THEN b
     ELSE [res |-> From(serialize_box(b.res.value, works)),
           calls |-> b.calls \o <<Call("serialize_box", b.res.value)>>]

(* ---------------------------- persistence ------------------------------ *)
(* scanIDs.json is modelled by what it holds: whether the file exists,     *)
(* whether its text is a complete JSON object, and the members of that     *)
(* object in the order json::stringify_pretty prints them.                 *)

NoDocument == [exists |-> FALSE, complete |-> FALSE, entries |-> <<>>]
\* the file std::fs::write leaves when it fails after truncating it
TruncatedDocument == [exists |-> TRUE, complete |-> FALSE, entries |-> <<>>]
Written(id_json) == [exists |-> TRUE, complete |-> TRUE, entries |-> id_json]
\* a document left by an earlier run
PriorDocument == Written(<<[key |-> "Old Scan", value |-> "7"]>>)

\* the outcomes of std::fs::write: written in full, failed before the file
\* was opened (the file is as before), failed after it was truncated
WriteOutcomes == {"written", "not_opened", "truncated"}

Keys(obj) == {obj[i].key : i \in DOMAIN obj}

\* json: `object[key] = val` replaces the value of a key the object holds,
\* in place, and appends the member otherwise
ObjectInsert(obj, key, val) ==
  IF key \in Keys(obj)
    THEN [i \in DOMAIN obj |-> IF obj[i].key = key THEN [key |-> key, value |-> val] ELSE obj[i]]
    ELSE Append(obj, [key |-> key, value |-> val])

RECURSIVE save_loop_unchecked(_, _)
\* faulty variant: the loop does not compare the id with "null"
save_loop_unchecked(scans, id_json) ==
  IF scans = <<>> THEN Ok(id_json)
  ELSE save_loop_unchecked(Tail(scans), ObjectInsert(id_json, Head(scans).name, Head(scans).id))

RECURSIVE save_loop(_, _)
\* the for loop of save_scan_ids_locally: Err at the first scan whose id is
\* "null", else the object built from all of them
save_loop(scans, id_json) ==
  IF scans = <<>> THEN Ok(id_json)
  ELSE IF Head(scans).id = NullID THEN Err("FailedToRegister")
  ELSE save_loop(Tail(scans), ObjectInsert(id_json, Head(scans).name, Head(scans).id))

RECURSIVE ValidPrefix(_)
\* the scans before the first one whose id is "null"
ValidPrefix(scans) ==
  IF scans = <<>> \/ Head(scans).id = NullID THEN <<>>
  ELSE <<Head(scans)>> \o ValidPrefix(Tail(scans))

\* faulty variant: the scans before the one with id "null" are written before failing
save_scan_ids_locally_partial(scans, doc, outcome) ==
  LET id_json == save_loop(scans, <<>>)
      prefix == save_loop(ValidPrefix(scans), <<>>).value
  IN IF ~IsOk(id_json)
       THEN [res |-> id_json, document |-> Written(prefix),
             calls |-> <<Call("fs::write", prefix)>>]
     ELSE IF outcome = "written"
       THEN [res |-> Ok(TRUE), document |-> Written(id_json.value),
             calls |-> <<Call("fs::write", id_json.value)>>]
     ELSE [res |-> From(IoFail),
           document |-> IF outcome = "truncated" THEN TruncatedDocument ELSE doc,
           calls |-> <<Call("fs::write", id_json.value)>>]

\* faulty variant: the scans are added to the members the document already holds
save_scan_ids_locally_merge(scans, doc, outcome) ==
  LET id_json == save_loop(scans, doc.entries)
  IN IF ~IsOk(id_json)
       THEN [res |-> id_json, document |-> doc, calls |-> <<>>]
     ELSE IF outcome = "written"
       THEN [res |-> Ok(TRUE), document |-> Written(id_json.value),
             calls |-> <<Call("fs::write", id_json.value)>>]
     ELSE [res |-> From(IoFail),
           document |-> IF outcome = "truncated" THEN TruncatedDocument ELSE doc,
           calls |-> <<Call("fs::write", id_json.value)>>]

\* returns [res, document, calls]: document is scanIDs.json after the call
save_scan_ids_locally(scans, doc, outcome) ==
  LET id_json == save_loop(scans, <<>>)
  IN IF ~IsOk(id_json)
       THEN [res |-> id_json, document |-> doc, calls |-> <<>>]
     ELSE IF outcome = "written"
       THEN [res |-> Ok(TRUE), document |-> Written(id_json.value),
             calls |-> <<Call("fs::write", id_json.value)>>]
     ELSE [res |-> From(IoFail),
           document |-> IF outcome = "truncated" THEN TruncatedDocument ELSE doc,
           calls |-> <<Call("fs::write", id_json.value)>>]

(* ---------------------------- catalog ----------------------------------- *)

ContainsAsset(asset_id) == [predicate |-> "containsAsset", assetId |-> asset_id]
EqualsValue(bytes) == [predicate |-> "equals", value |-> bytes]
EqualsRegister(reg, bytes) == [predicate |-> "equals", register |-> reg, value |-> bytes]
And(args) == [predicate |-> "and", args |-> args]

\* PoolContract::new().ergo_tree().to_base16_bytes().unwrap()
PoolContractTreeBytes == "tree:PoolContract"
\* RefreshContract::new().ergo_tree().to_base16_bytes().unwrap()
RefreshContractTreeBytes == "tree:RefreshContract"

register_pool_box_scan(oracle_pool_nft, answer) ==
  LET scan_json == And(<<ContainsAsset(oracle_pool_nft), EqualsValue(PoolContractTreeBytes)>>)
  IN register("Pool Box Scan", scan_json, answer)

register_refresh_box_scan(scan_name, refresh_nft, answer) ==
  LET scan_json == And(<<ContainsAsset(refresh_nft), EqualsValue(RefreshContractTreeBytes)>>)
  IN register(scan_name, scan_json, answer)

register_epoch_preparation_scan(oracle_pool_nft, epoch_preparation_address, encodes, answer) ==
  LET epoch_prep_bytes == From(address_to_bytes(epoch_preparation_address, encodes))
      encoded == <<Call("address_to_bytes", epoch_preparation_address)>>
  IN IF ~IsOk(epoch_prep_bytes) THEN [res |-> epoch_prep_bytes, calls |-> encoded]
     ELSE LET scan_json == And(<<ContainsAsset(oracle_pool_nft),
                                 EqualsValue(epoch_prep_bytes.value)>>)
              r == register("Epoch Preparation Scan", scan_json, answer)
          IN [res |-> r.res, calls |-> encoded \o r.calls]

register_local_oracle_datapoint_scan(oracle_pool_participant_token, datapoint_address, oracle_address, encodes, encodesRaw, answer) ==
  LET datapoint_add_bytes == From(address_to_bytes(datapoint_address, encodes))
      oracle_add_bytes == From(address_to_raw_for_register(oracle_address, encodesRaw))
      first == <<Call("address_to_bytes", datapoint_address)>>
      second == <<Call("address_to_raw_for_register", oracle_address)>>
  IN IF ~IsOk(datapoint_add_bytes) THEN [res |-> datapoint_add_bytes, calls |-> first]
     ELSE IF ~IsOk(oracle_add_bytes)
       THEN [res |-> oracle_add_bytes, calls |-> first \o second]
     ELSE LET scan_json == And(<<ContainsAsset(oracle_pool_participant_token),
                                 EqualsValue(datapoint_add_bytes.value),
                                 EqualsRegister("R4", oracle_add_bytes.value)>>)
              r == register("Local Oracle Datapoint Scan", scan_json, answer)
          IN [res |-> r.res, calls |-> first \o second \o r.calls]

\* faulty variant: the conditions are built in the other order
register_datapoint_scan_swapped(oracle_pool_participant_token, datapoint_address, encodes, answer) ==
  LET datapoint_add_bytes == From(address_to_bytes(datapoint_address, encodes))
      encoded == <<Call("address_to_bytes", datapoint_address)>>
  IN IF ~IsOk(datapoint_add_bytes) THEN [res |-> datapoint_add_bytes, calls |-> encoded]
     ELSE LET scan_json == And(<<EqualsValue(datapoint_add_bytes.value),
                                 ContainsAsset(oracle_pool_participant_token)>>)
              r == register("All Datapoints Scan", scan_json, answer)
          IN [res |-> r.res, calls |-> encoded \o r.calls]

register_datapoint_scan(oracle_pool_participant_token, datapoint_address, encodes, answer) ==
  LET datapoint_add_bytes == From(address_to_bytes(datapoint_address, encodes))
      encoded == <<Call("address_to_bytes", datapoint_address)>>
  IN IF ~IsOk(datapoint_add_bytes) THEN [res |-> datapoint_add_bytes, calls |-> encoded]
     ELSE LET scan_json == And(<<ContainsAsset(oracle_pool_participant_token),
                                 EqualsValue(datapoint_add_bytes.value)>>)
              r == register("All Datapoints Scan", scan_json, answer)
          IN [res |-> r.res, calls |-> encoded \o r.calls]

\* .expect(..) on the encoding: a failure of address_to_bytes panics
register_pool_deposit_scan(pool_deposit_address, encodes, answer) ==
  LET pool_dep_add_bytes == address_to_bytes(pool_deposit_address, encodes)
      encoded == <<Call("address_to_bytes", pool_deposit_address)>>
  IN IF ~IsOk(pool_dep_add_bytes)
       THEN [res |-> Panic("Failed to access node to use addressToBytes."), calls |-> encoded]
     ELSE LET scan_json == EqualsValue(pool_dep_add_bytes.value)
              r == register("Pool Deposits Scan", scan_json, answer)
          IN [res |-> r.res, calls |-> encoded \o r.calls]

(* ---------------------------- inputs ------------------------------------ *)

\* the Scan values a caller can hold: register returns them, Scan::new builds them
Scans == {Scan_new(name, id) : name \in Names, id \in NodeIDs}
ScanLists == UNION {[1..n -> Scans] : n \in 0..MaxScans}
\* tracking rules a caller passes to Scan::register
TrackingRules ==
  {EqualsValue(TreeBytes("addr1")), And(<<ContainsAsset("nft1"), EqualsValue(TreeBytes("addr1"))>>)}

\* the record of a call that leaves scanIDs.json alone
Returned(op, args, answers, r) ==
  [op |-> op, args |-> args, answers |-> answers, res |-> r.res, calls |-> r.calls,
   before |-> document]

(* ---------------------------- actions ----------------------------------- *)

Init ==
  /\ document \in {NoDocument, PriorDocument}
  /\ lastCall = [op |-> "init", args |-> <<>>, answers |-> <<>>, res |-> Ok(TRUE),
                 calls |-> <<>>, before |-> document]

Register ==
  \E name \in Names, tracking_rule \in TrackingRules, answer \in RegisterAnswers :
    /\ lastCall' = Returned("register", [name |-> name, tracking_rule |-> tracking_rule],
                            [register_scan |-> answer], register(name, tracking_rule, answer))
    /\ UNCHANGED document

GetBoxes ==
  \E self \in Scans, answer \in BoxesAnswers :
    /\ lastCall' = Returned("get_boxes", [self |-> self],
                            [get_scan_boxes |-> answer], get_boxes(self, answer))
    /\ UNCHANGED document

GetBox ==
  \E self \in Scans, answer \in BoxesAnswers :
    /\ lastCall' = Returned("get_box", [self |-> self],
                            [get_scan_boxes |-> answer], get_box(self, answer))
    /\ UNCHANGED document

GetSerializedBoxes ==
  \E self \in Scans, answer \in BoxesAnswers, works \in BOOLEAN :
    /\ lastCall' = Returned("get_serialized_boxes", [self |-> self],
                            [get_scan_boxes |-> answer, serializes |-> works],
                            get_serialized_boxes(self, answer, works))
    /\ UNCHANGED document

GetSerializedBox ==
  \E self \in Scans, answer \in BoxesAnswers, works \in BOOLEAN :
    /\ lastCall' = Returned("get_serialized_box", [self |-> self],
                            [get_scan_boxes |-> answer, serializes |-> works],
                            get_serialized_box(self, answer, works))
    /\ UNCHANGED document

SaveScanIdsLocally ==
  \E scans \in ScanLists, outcome \in WriteOutcomes :
    LET r == save_scan_ids_locally(scans, document, outcome)
    IN /\ lastCall' = [op |-> "save_scan_ids_locally", args |-> [scans |-> scans],
                       answers |-> [write |-> outcome], res |-> r.res, calls |-> r.calls,
                       before |-> document]
       /\ document' = r.document

RegisterPoolBoxScan ==
  \E oracle_pool_nft \in Tokens, answer \in RegisterAnswers :
    /\ lastCall' = Returned("register_pool_box_scan", [token |-> oracle_pool_nft],
                            [register_scan |-> answer],
                            register_pool_box_scan(oracle_pool_nft, answer))
    /\ UNCHANGED document

RegisterRefreshBoxScan ==
  \E scan_name \in Names, refresh_nft \in Tokens, answer \in RegisterAnswers :
    /\ lastCall' = Returned("register_refresh_box_scan",
                            [scan_name |-> scan_name, token |-> refresh_nft],
                            [register_scan |-> answer],
                            register_refresh_box_scan(scan_name, refresh_nft, answer))
    /\ UNCHANGED document

RegisterEpochPreparationScan ==
  \E oracle_pool_nft \in Tokens, address \in Addresses, encodes \in BOOLEAN,
     answer \in RegisterAnswers :
    /\ lastCall' = Returned("register_epoch_preparation_scan",
                            [token |-> oracle_pool_nft, address |-> address],
                            [encodes |-> encodes, encodesRaw |-> TRUE, register_scan |-> answer],
                            register_epoch_preparation_scan(oracle_pool_nft, address, encodes, answer))
    /\ UNCHANGED document

RegisterLocalOracleDatapointScan ==
  \E token \in Tokens, address \in Addresses, oracle_address \in Addresses,
     encodes \in BOOLEAN, encodesRaw \in BOOLEAN, answer \in RegisterAnswers :
    /\ lastCall' = Returned("register_local_oracle_datapoint_scan",
                            [token |-> token, address |-> address, oracle_address |-> oracle_address],
                            [encodes |-> encodes, encodesRaw |-> encodesRaw, register_scan |-> answer],
                            register_local_oracle_datapoint_scan(token, address, oracle_address,
                                                                 encodes, encodesRaw, answer))
    /\ UNCHANGED document

RegisterDatapointScan ==
  \E token \in Tokens, address \in Addresses, encodes \in BOOLEAN, answer \in RegisterAnswers :
    /\ lastCall' = Returned("register_datapoint_scan",
                            [token |-> token, address |-> address],
                            [encodes |-> encodes, encodesRaw |-> TRUE, register_scan |-> answer],
                            register_datapoint_scan(token, address, encodes, answer))
    /\ UNCHANGED document

RegisterPoolDepositScan ==
  \E address \in Addresses, encodes \in BOOLEAN, answer \in RegisterAnswers :
    /\ lastCall' = Returned("register_pool_deposit_scan", [address |-> address],
                            [encodes |-> encodes, encodesRaw |-> TRUE, register_scan |-> answer],
                            register_pool_deposit_scan(address, encodes, answer))
    /\ UNCHANGED document

\* any sequence of registrations, retrievals and saves; the two serializing
\* retrievals, which add a serializer call to get_boxes and get_box and do not
\* touch scanIDs.json either, are in NextRetrieval
Next ==
  \/ Register
  \/ GetBoxes
  \/ GetBox
  \/ SaveScanIdsLocally

Spec == Init /\ [][Next]_vars

\* the registry: registration and the four retrieval operations
NextRetrieval ==
  \/ Register
  \/ GetBoxes
  \/ GetBox
  \/ GetSerializedBoxes
  \/ GetSerializedBox

SpecRetrieval == Init /\ [][NextRetrieval]_vars

\* the catalog run: the six registration procedures
NextCatalog ==
  \/ RegisterPoolBoxScan
  \/ RegisterRefreshBoxScan
  \/ RegisterEpochPreparationScan
  \/ RegisterLocalOracleDatapointScan
  \/ RegisterDatapointScan
  \/ RegisterPoolDepositScan

SpecCatalog == Init /\ [][NextCatalog]_vars

(* ---------------------------- properties -------------------------------- *)

Saved == lastCall.op = "save_scan_ids_locally"
HasNullScan(scans) == \E i \in DOMAIN scans : scans[i].id = NullID
\* the position of the last scan of the list that carries the name
LastWith(scans, name) ==
  CHOOSE i \in DOMAIN scans :
    /\ scans[i].name = name
    /\ \A j \in DOMAIN scans : scans[j].name = name => j <= i

\* C1: whenever register_scan succeeds and returns "null", Scan::register
\* returns FailedToRegister: never Ok(Scan) with id "null", never a panic, and
\* scanIDs.json is not written.
C1_RegisterRejectsNull ==
  (lastCall.op = "register" /\ lastCall.answers.register_scan = Ok(NullID))
    => /\ IsErr(lastCall.res, "FailedToRegister")
       /\ document = lastCall.before

\* C2: save_scan_ids_locally on a list holding a scan with id "null", at any
\* position, returns FailedToRegister, requests no write, and leaves
\* scanIDs.json exactly as it was before the call.
C2_SaveWithNullWritesNothing ==
  (Saved /\ HasNullScan(lastCall.args.scans))
    => /\ IsErr(lastCall.res, "FailedToRegister")
       /\ document = lastCall.before
       /\ CallsTo(lastCall.calls, "fs::write") = 0

\* a save that failed on a "null" id placed after a valid one, with a document
\* already on disk
C2_Witness ==
  /\ Saved
  /\ Len(lastCall.args.scans) = 2
  /\ lastCall.args.scans[1].id # NullID
  /\ lastCall.args.scans[2].id = NullID
  /\ lastCall.before = PriorDocument

\* C3 as stated: save_scan_ids_locally on a list with no "null" id, the write
\* succeeding, returns Ok(true) and leaves a document that holds the entry
\* name -> id for every scan of the list and no other entry.
C3_SaveWritesEveryScan ==
  (Saved /\ ~HasNullScan(lastCall.args.scans) /\ lastCall.answers.write = "written")
    => /\ IsOk(lastCall.res) /\ lastCall.res.value = TRUE
       /\ document.exists /\ document.complete
       /\ \A i \in DOMAIN lastCall.args.scans :
            \E j \in DOMAIN document.entries :
              document.entries[j] = [key |-> lastCall.args.scans[i].name,
                                     value |-> lastCall.args.scans[i].id]
       /\ \A j \in DOMAIN document.entries :
            \E i \in DOMAIN lastCall.args.scans :
              document.entries[j] = [key |-> lastCall.args.scans[i].name,
                                     value |-> lastCall.args.scans[i].id]

\* C3 amended: save_scan_ids_locally on a list with no "null" id, the write
\* succeeding, returns Ok(true) and leaves a document with exactly one entry
\* per name that occurs in the list, name -> id of the last scan of the list
\* with that name, and no other entry; what the document held before is
\* replaced in full.
C3_SaveWritesLastPerName ==
  (Saved /\ ~HasNullScan(lastCall.args.scans) /\ lastCall.answers.write = "written")
    => /\ IsOk(lastCall.res) /\ lastCall.res.value = TRUE
       /\ document.exists /\ document.complete
       /\ Keys(document.entries) = {lastCall.args.scans[i].name : i \in DOMAIN lastCall.args.scans}
       /\ Len(document.entries) = Cardinality(Keys(document.entries))
       /\ \A j \in DOMAIN document.entries :
            document.entries[j].value =
              lastCall.args.scans[LastWith(lastCall.args.scans, document.entries[j].key)].id

\* a successful save of two scans of one name and different ids over a
\* document that held another entry
C3_Witness ==
  /\ Saved /\ IsOk(lastCall.res)
  /\ Len(lastCall.args.scans) = 2
  /\ lastCall.args.scans[1].name = lastCall.args.scans[2].name
  /\ lastCall.args.scans[1].id # lastCall.args.scans[2].id
  /\ lastCall.before = PriorDocument

\* C4: when get_scan_boxes succeeds with an empty collection get_box returns
\* NoBoxesFound; when it succeeds with a non-empty collection get_box returns
\* the element at its first position, for every collection and every scan.
C4_GetBoxFirstOrNoBoxesFound ==
  (lastCall.op = "get_box" /\ IsOk(lastCall.answers.get_scan_boxes))
    => IF lastCall.answers.get_scan_boxes.value = <<>>
         THEN IsErr(lastCall.res, "NoBoxesFound")
         ELSE IsOk(lastCall.res)
              /\ lastCall.res.value = lastCall.answers.get_scan_boxes.value[1]

\* get_box answered from a collection of two different boxes
C4_Witness ==
  /\ lastCall.op = "get_box"
  /\ IsOk(lastCall.answers.get_scan_boxes)
  /\ Len(lastCall.answers.get_scan_boxes.value) = 2
  /\ lastCall.answers.get_scan_boxes.value[1] # lastCall.answers.get_scan_boxes.value[2]
  /\ IsOk(lastCall.res)

\* C5: when get_scan_boxes succeeds with an empty collection get_boxes returns
\* Ok with an empty collection, never NoBoxesFound; get_boxes returns an error
\* only when the node call errors, and the error is then NodeError.
C5_GetBoxesEmptyIsOk ==
  lastCall.op = "get_boxes"
    => /\ lastCall.answers.get_scan_boxes = Ok(<<>>)
            => IsOk(lastCall.res) /\ lastCall.res.value = <<>>
       /\ ~IsOk(lastCall.res)
            => lastCall.answers.get_scan_boxes.kind = "NodeFail"
               /\ IsErr(lastCall.res, "NodeError")

\* get_boxes on a scan the node matches no box for
C5_Witness ==
  /\ lastCall.op = "get_boxes"
  /\ lastCall.answers.get_scan_boxes = Ok(<<>>)
  /\ IsOk(lastCall.res)

Retrievals == {"get_boxes", "get_box", "get_serialized_boxes", "get_serialized_box"}
AddressProcedures ==
  {"register_epoch_preparation_scan", "register_local_oracle_datapoint_scan",
   "register_datapoint_scan", "register_pool_deposit_scan"}
AssetProcedures ==
  {"register_pool_box_scan", "register_refresh_box_scan", "register_epoch_preparation_scan",
   "register_local_oracle_datapoint_scan", "register_datapoint_scan"}

\* the procedure got as far as register_scan
Registered == CallsTo(lastCall.calls, "register_scan") > 0
\* the predicate it sent: every procedure ends with the register_scan request
SentRule == lastCall.calls[Len(lastCall.calls)].arg.trackingRule

RECURSIVE HasContainsAsset(_)
\* a containsAsset condition occurs somewhere in the predicate
HasContainsAsset(p) ==
  \/ p.predicate = "containsAsset"
  \/ p.predicate = "and" /\ \E i \in DOMAIN p.args : HasContainsAsset(p.args[i])

\* C6: in every catalog procedure that encodes an address, a failure of
\* address_to_bytes or address_to_raw_for_register is returned to the caller as
\* Err(NodeError), without a panic, and register_scan is not called.
C6_EncodingFailureIsReturned ==
  (/\ lastCall.op \in AddressProcedures
   /\ ~(lastCall.answers.encodes /\ lastCall.answers.encodesRaw))
    => /\ IsErr(lastCall.res, "NodeError")
       /\ ~Registered

\* C7: no retries and no caching.  Each Scan::register call makes exactly one
\* register_scan request and each retrieval call exactly one get_scan_boxes
\* request, whether the request succeeds or fails, and what a retrieval call
\* returns is the node's answer to that request: the error when it failed,
\* else its boxes (get_boxes), its first box (get_box), or their
\* serializations.
C7_OneRequestPerCall ==
  /\ lastCall.op = "register" => CallsTo(lastCall.calls, "register_scan") = 1
  /\ lastCall.op \in Retrievals =>
       LET answer == lastCall.answers.get_scan_boxes
       IN /\ CallsTo(lastCall.calls, "get_scan_boxes") = 1
          /\ ~IsOk(answer) => IsErr(lastCall.res, "NodeError")
          /\ (IsOk(lastCall.res) /\ lastCall.op = "get_boxes")
               => IsOk(answer) /\ lastCall.res.value = answer.value
          /\ (IsOk(lastCall.res) /\ lastCall.op = "get_box")
               => IsOk(answer) /\ lastCall.res.value = Head(answer.value)
          /\ (IsOk(lastCall.res) /\ lastCall.op = "get_serialized_boxes")
               => IsOk(answer)
                  /\ lastCall.res.value = [i \in DOMAIN answer.value |-> SerializedBox(answer.value[i])]
          /\ (IsOk(lastCall.res) /\ lastCall.op = "get_serialized_box")
               => IsOk(answer) /\ lastCall.res.value = SerializedBox(Head(answer.value))

\* a get_boxes call the node answered with boxes
C7_Witness ==
  /\ lastCall.op = "get_boxes"
  /\ IsOk(lastCall.res)
  /\ lastCall.res.value # <<>>
  /\ CallsTo(lastCall.calls, "get_scan_boxes") = 1

\* C8: the predicate the pool-deposit procedure builds is a single equals
\* condition with no containsAsset condition anywhere in it, for every deposit
\* address; each of the other five procedures builds an "and" predicate whose
\* first argument is the containsAsset condition on the token passed in.
C8_PredicateShapes ==
  Registered =>
    /\ lastCall.op = "register_pool_deposit_scan"
         => /\ SentRule = EqualsValue(TreeBytes(lastCall.args.address))
            /\ ~HasContainsAsset(SentRule)
    /\ lastCall.op \in AssetProcedures
         => /\ SentRule.predicate = "and"
            /\ SentRule.args[1] = ContainsAsset(lastCall.args.token)

\* the pool-deposit procedure built its predicate and registered it
C8_Witness ==
  /\ lastCall.op = "register_pool_deposit_scan"
  /\ Registered
  /\ IsOk(lastCall.res)

\* C9: if get_scan_boxes errors, get_serialized_box and get_serialized_boxes
\* return NodeError and the serializer is not called; get_serialized_box on an
\* empty match set returns NoBoxesFound without calling serialize_box, while
\* get_serialized_boxes on an empty match set does not return NoBoxesFound; a
\* serializer failure after a successful retrieval is returned as NodeError.
C9_SerializedFollowRetrieval ==
  lastCall.op \in {"get_serialized_box", "get_serialized_boxes"} =>
    LET answer == lastCall.answers.get_scan_boxes
        serializerCalls == CallsTo(lastCall.calls, "serialize_box")
                           + CallsTo(lastCall.calls, "serialize_boxes")
    IN /\ ~IsOk(answer) => IsErr(lastCall.res, "NodeError") /\ serializerCalls = 0
       /\ (lastCall.op = "get_serialized_box" /\ answer = Ok(<<>>))
            => IsErr(lastCall.res, "NoBoxesFound") /\ serializerCalls = 0
       /\ (lastCall.op = "get_serialized_boxes" /\ answer = Ok(<<>>))
            => ~IsErr(lastCall.res, "NoBoxesFound")
       /\ (serializerCalls > 0 /\ ~lastCall.answers.serializes)
            => IsErr(lastCall.res, "NodeError")

\* get_serialized_box got a box and the serializer failed on it
C9_Witness ==
  /\ lastCall.op = "get_serialized_box"
  /\ IsOk(lastCall.answers.get_scan_boxes)
  /\ lastCall.answers.get_scan_boxes.value # <<>>
  /\ ~lastCall.answers.serializes
  /\ IsErr(lastCall.res, "NodeError")

\* C10: over any sequence of registrations, retrievals and saves, the node free
\* to return any identifier, "null" included, scanIDs.json never holds an entry
\* whose value is "null".
C10_NoNullPersisted ==
  \A i \in DOMAIN document.entries : document.entries[i].value # NullID

\* a save of a list with a "null" id was attempted on a document that holds
\* entries written by an earlier save
C10_Witness ==
  /\ Saved
  /\ HasNullScan(lastCall.args.scans)
  /\ document.complete
  /\ \E i \in DOMAIN document.entries : document.entries[i].key \in Names
====
